---- MODULE Spec2Model ----
(***************************************************************************)
(* Model of analyzer.py: a sequential pipeline that extracts the text of a *)
(* presentation (a .pptx document or a folder of slide images), sends each *)
(* image to a generative model for OCR, concatenates everything into one   *)
(* text blob and asks the model for an inconsistency report.               *)
(*                                                                         *)
(* A string built by concatenation (full_text_content) is a sequence of    *)
(* segments, one per `+=` of the source; every segment is a non-empty      *)
(* string in the program, so the empty sequence is the empty string.       *)
(* A filename is the sequence of the code points of its characters.       *)
(***************************************************************************)
EXTENDS Integers, Sequences, FiniteSets, TLC

\* ------------------------------------------------------------------ bounds
MaxSlides == 2
MaxShapes == 2
MaxFiles == 2

\* ------------------------------------------------------- program constants
\* shape.shape_type of a Picture object (MSO_SHAPE_TYPE.PICTURE)
PICTURE == 13

\* ---------------------------------------------------------- characters
\* A character is its Unicode code point; a string is the sequence of the
\* code points of its characters.
Range(s) == {s[k] : k \in 1..Len(s)}

\* The decimal digits of Unicode (category Nd), the characters \d matches
\* and int() reads, come in runs of ten consecutive code points with the
\* values 0..9; these are the first code points of the runs (48 is "0",
\* 1632 ARABIC-INDIC DIGIT ZERO, 65296 FULLWIDTH DIGIT ZERO).
DigitRunStarts ==
    { 48, 1632, 1776, 1984, 2406, 2534, 2662, 2790,
      2918, 3046, 3174, 3302, 3430, 3558, 3664, 3792,
      3872, 4160, 4240, 6112, 6160, 6470, 6608, 6784,
      6800, 6992, 7088, 7232, 7248, 42528, 43216, 43264,
      43472, 43504, 43600, 44016, 65296, 66720, 68912, 69734,
      69872, 69942, 70096, 70384, 70736, 70864, 71248, 71360,
      71472, 71904, 72016, 72784, 73040, 73120, 92768, 92864,
      93008, 120782, 120792, 120802, 120812, 120822, 123200, 123632,
      125264, 130032 }

\* the decimal digits
DigitChars == UNION {s..(s + 9) : s \in DigitRunStarts}

\* the value of each: its place in its run
DigitValues ==
    [c \in DigitChars |-> c - (CHOOSE s \in DigitRunStarts : s <= c /\ c <= s + 9)]

\* a character \D does not match
IsDigit(c) == c \in DigitChars

\* int() of one decimal digit character
DigitVal(c) == DigitValues[c]

\* c.lower() == x for an ASCII character x: c is x, the ASCII capital of
\* the letter x, or KELVIN SIGN for "k"
LowersTo(c, x) ==
    \/ c = x
    \/ 97 <= x /\ x <= 122 /\ c = x - 32
    \/ x = 107 /\ c = 8490

\* f.lower().endswith(e) for an extension e of line 77. str.lower() maps
\* character by character (one character may become several, and a capital
\* sigma depends on its neighbours), and no character other than the ones
\* of LowersTo lower-cases to a string holding a character of an extension:
\* the lowered name ends with e exactly when its last characters lower to
\* the characters of e one by one.
LowerEndsWith(f, e) ==
    /\ Len(e) <= Len(f)
    /\ \A k \in 1..Len(e) : LowersTo(f[Len(f) - Len(e) + k], e[k])

\* the tuple of extensions of line 77: ".png", ".jpg", ".jpeg", ".bmp"
ImageExtensions ==
    { <<46, 112, 110, 103>>, <<46, 106, 112, 103>>,
      <<46, 106, 112, 101, 103>>, <<46, 98, 109, 112>> }

\* f.lower().endswith(('.png', '.jpg', '.jpeg', '.bmp'))
IsImageFile(f) == \E e \in ImageExtensions : LowerEndsWith(f, e)

\* re.sub(r'\D', '', f): every non-digit character deleted
StripNonDigits(f) == SelectSeq(f, IsDigit)

\* A Python integer is unbounded; one that is not negative is its decimal
\* numeral: the digit values, most significant first, without leading
\* zeros, and <<0>> for zero.
RECURSIVE Numeral(_)
Numeral(values) ==
    IF values = <<>> THEN <<0>>
    ELSE IF Head(values) = 0 /\ Len(values) > 1 THEN Numeral(Tail(values))
    ELSE values

IntZero == <<0>>

\* a < b on integers
RECURSIVE LexLess(_, _)
LexLess(a, b) ==
    /\ a # <<>>
    /\ \/ Head(a) < Head(b)
       \/ Head(a) = Head(b) /\ LexLess(Tail(a), Tail(b))

IntLess(a, b) ==
    \/ Len(a) < Len(b)
    \/ Len(a) = Len(b) /\ LexLess(a, b)

\* int(d) on a non-empty string of decimal digits
ParseInt(d) == Numeral([k \in 1..Len(d) |-> DigitVal(d[k])])

\* a key that reads the first run of digits only (re.search(r'\d+', f))
RECURSIVE FirstDigitRun(_, _)
FirstDigitRun(f, started) ==
    IF f = <<>> THEN <<>>
    ELSE IF IsDigit(Head(f)) THEN <<Head(f)>> \o FirstDigitRun(Tail(f), TRUE)
    ELSE IF started THEN <<>>
    ELSE FirstDigitRun(Tail(f), FALSE)

SortKeyFirstRun(f) ==
    LET d == FirstDigitRun(f, FALSE)
    IN IF d = <<>> THEN IntZero ELSE ParseInt(d)

\* the sort key of line 78: int(re.sub(r'\D', '', f) or 0)
SortKey(f) ==
    LET d == StripNonDigits(f)
    IN IF d = <<>> THEN IntZero ELSE ParseInt(d)

\* [f for f in os.listdir(folder_path) if ...]: the filter keeps the order
FilterImages(entries) == SelectSeq(entries, IsImageFile)

\* one insertion of list.sort: x goes after every element whose key is not
\* larger (the sort is stable)
RECURSIVE InsertByKey(_, _)
InsertByKey(x, sorted) ==
    IF sorted = <<>> THEN <<x>>
    ELSE IF IntLess(SortKey(x), SortKey(Head(sorted)))
         THEN <<x>> \o sorted
         ELSE <<Head(sorted)>> \o InsertByKey(x, Tail(sorted))

RECURSIVE SortFrom(_, _)
SortFrom(todo, sorted) ==
    IF todo = <<>> THEN sorted
    ELSE SortFrom(Tail(todo), InsertByKey(Head(todo), sorted))

\* image_files.sort(key=...)
SortImages(files) == SortFrom(files, <<>>)

\* ---------------------------------------------------------------- inputs
\* directory entries the runs draw their folder listings from
\* "s2.png"
F_s2 == <<115, 50, 46, 112, 110, 103>>
\* "s10.PNG"
F_s10 == <<115, 49, 48, 46, 80, 78, 71>>
\* "n.jpg"
F_n == <<110, 46, 106, 112, 103>>
\* "2b.jpeg"
F_2b == <<50, 98, 46, 106, 112, 101, 103>>
\* "v1s3.bmp"
F_v1s3 == <<118, 49, 115, 51, 46, 98, 109, 112>>
\* "r7.txt"
F_txt == <<114, 55, 46, 116, 120, 116>>
\* "s", FULLWIDTH DIGIT THREE, ".png"
F_fw == <<115, 65299, 46, 112, 110, 103>>
\* "IMG_20240115_123456.png"
F_img == <<73, 77, 71, 95, 50, 48, 50, 52, 48, 49, 49, 53, 95, 49, 50, 51, 52, 53, 54, 46, 112, 110, 103>>

FilePool == {F_s2, F_s10, F_n, F_2b, F_v1s3, F_txt, F_fw, F_img}

\* os.listdir: distinct names, in an arbitrary order
RECURSIVE Listings(_)
Listings(n) ==
    IF n = 0 THEN {<<>>}
    ELSE LET shorter == Listings(n - 1)
         IN shorter \cup
            {Append(l, f) : l \in {x \in shorter : Len(x) = n - 1}, f \in FilePool}

DistinctListings == {l \in Listings(MaxFiles) : Cardinality(Range(l)) = Len(l)}

\* a shape: whether it has a text attribute, and its shape_type (17: text box)
ShapeTypes == {PICTURE, 17}
Shapes == [has_text : BOOLEAN, shape_type : ShapeTypes]

\* the shape lists of at most n shapes
RECURSIVE ShapeLists(_)
ShapeLists(n) ==
    IF n = 0 THEN {<<>>}
    ELSE {<<>>} \cup {<<sh>> \o rest : sh \in Shapes, rest \in ShapeLists(n - 1)}

\* the documents of at most s slides and at most t shapes in all
RECURSIVE Decks(_, _)
Decks(s, t) ==
    IF s = 0 THEN {<<>>}
    ELSE {<<>>} \cup
         UNION { {<<sl>> \o rest : rest \in Decks(s - 1, t - Len(sl))} :
                 sl \in ShapeLists(t) }

\* what model.generate_content gives back: it raises, or it returns a
\* response with a candidate list and the finish reason of its first candidate
Responses ==
    { [raised |-> TRUE, candidates |-> 0, finish_reason |-> "NONE"],
      [raised |-> FALSE, candidates |-> 0, finish_reason |-> "NONE"],
      [raised |-> FALSE, candidates |-> 1, finish_reason |-> "SAFETY"],
      [raised |-> FALSE, candidates |-> 1, finish_reason |-> "STOP"] }

VARIABLES
    api_key,            \* os.getenv("GOOGLE_API_KEY") is set
    genai_ok,           \* genai.configure / GenerativeModel do not raise
    args_pptx,          \* args.pptx: None, "" (an empty path) or a path
    args_image_folder,  \* args.image_folder: the same
    can_open,           \* Presentation(pptx_path) opens
    slides,             \* presentation.slides: a sequence of shape lists
    error_text,         \* str(e) of the exception caught at line 28 or 38
    isdir,              \* os.path.isdir(folder_path)
    can_list,           \* os.listdir(folder_path) does not raise
    listing,            \* os.listdir(folder_path)
    pc,                 \* the position of the process
    i,                  \* the loop index of enumerate (0-based)
    j,                  \* the position in slide.shapes of the second pass
    image_files,        \* the filtered, sorted list of folder mode
    full_text_content,  \* the blob under construction
    extracted_data,     \* main's variable: None or a string
    calls,              \* the model.generate_content calls, in issue order
    decode_failed,      \* the images Image.open raised on
    console,            \* what console.print has printed
    invoked,            \* the functions of the module that were entered
    uncaught            \* the exception that ended the process, if any

vars == <<api_key, genai_ok, args_pptx, args_image_folder, can_open, slides,
          error_text, isdir, can_list, listing, pc, i, j, image_files, full_text_content, extracted_data, calls, decode_failed,
          console, invoked, uncaught>>

inputs == <<api_key, genai_ok, args_pptx, args_image_folder, can_open, slides,
            error_text, isdir, can_list, listing>>

\* what an option of the command line can be: not given, given with an
\* empty path, given with a path, given with a path that holds a closing
\* markup tag (a folder named "e[/b]")
ArgValues == {"None", "", "path", "path[/b]"}

\* `if args.pptx`, `elif args.image_folder`: false for None and for the
\* empty string
PathGiven(arg) == arg \notin {"None", ""}

\* the path holds a closing tag of the console markup: console.print of a
\* message of lines 73 and 81, which wrap the path in [bold ...] and
\* [/bold ...], finds a closing tag that matches no open tag and raises
\* MarkupError before anything is printed
ClosesTag(path) == path = "path[/b]"

\* what the text of a caught exception can be: free of closing tags, free of
\* them but quoting the path it was given (PackageNotFoundError of
\* Presentation), or holding a closing tag of its own
ErrorTexts == {"plain", "quotes_path", "closing_tag"}

\* console.print(f"[bold red]...{e}[/bold red]") of lines 29 and 39 raises
\* MarkupError
ErrorMarkupRaises(text, path) ==
    \/ text = "closing_tag"
    \/ text = "quotes_path" /\ ClosesTag(path)

\* parser.parse_args() ends the process with a usage error: the group is
\* required and mutually exclusive, one option exactly must be given
UsageError == (args_pptx = "None") = (args_image_folder = "None")

\* lines 144-147: the extractor main calls; `if args.pptx` and
\* `elif args.image_folder` are false for None and for the empty string
mode ==
    IF UsageError THEN "none"
    ELSE IF PathGiven(args_pptx) THEN "pptx"
    ELSE IF PathGiven(args_image_folder) THEN "folder"
    ELSE "none"

NoFile == <<>>

Seg(kind, slide, shape, file) ==
    [kind |-> kind, slide |-> slide, shape |-> shape, file |-> file]

Call(kind, slide, shape, file) ==
    [kind |-> kind, slide |-> slide, shape |-> shape, file |-> file,
     outcome |-> "pending"]

Image(slide, shape, file) == [slide |-> slide, shape |-> shape, file |-> file]

\* a Python string or None
Str(text) == [isNone |-> FALSE, text |-> text]
None == [isNone |-> TRUE, text |-> <<>>]

Init ==
    /\ api_key \in BOOLEAN
    /\ genai_ok \in BOOLEAN
    /\ args_pptx \in ArgValues
    /\ args_image_folder \in ArgValues
    /\ can_open \in (IF mode = "pptx" THEN BOOLEAN ELSE {FALSE})
    /\ slides \in (IF can_open THEN Decks(MaxSlides, MaxShapes) ELSE {<<>>})
    /\ error_text \in (IF ~genai_ok THEN {"plain", "closing_tag"}
                      ELSE IF mode = "pptx" /\ ~can_open THEN ErrorTexts
                      ELSE {"none"})
    /\ isdir \in (IF mode = "folder" THEN BOOLEAN ELSE {FALSE})
    /\ can_list \in (IF isdir THEN BOOLEAN ELSE {FALSE})
    /\ listing \in (IF can_list THEN DistinctListings ELSE {<<>>})
    /\ pc = "setup"
    /\ i = 0
    /\ j = 0
    /\ image_files = <<>>
    /\ full_text_content = <<>>
    /\ extracted_data = Str(<<>>)
    /\ calls = <<>>
    /\ decode_failed = <<>>
    /\ console = <<>>
    /\ invoked = {}
    /\ uncaught = "none"

\* ------------------------------------------------------ module set-up
\* the credential check left out
KeyMissingNever(key) == FALSE

\* `if not api_key`
KeyMissing(key) == ~key

\* lines 16-30: the credential check and the client configuration, both
\* ending the process with exit() before any function is defined or called;
\* the process ends there too, with a traceback, when the message of line 29
\* cannot be printed
Setup ==
    /\ pc = "setup"
    /\ IF KeyMissing(api_key)
       THEN /\ console' = console \o <<"error: GOOGLE_API_KEY not found">>
            /\ pc' = "exited"
            /\ UNCHANGED uncaught
       ELSE IF ~genai_ok
       THEN IF ErrorMarkupRaises(error_text, "None")
            THEN /\ uncaught' = "markup"
                 /\ pc' = "exited"
                 /\ UNCHANGED console
            ELSE /\ console' = console \o <<"error: failed to configure">>
                 /\ pc' = "exited"
                 /\ UNCHANGED uncaught
       ELSE /\ console' = console
            /\ pc' = "main"
            /\ UNCHANGED uncaught
    /\ UNCHANGED <<inputs, i, j, image_files, full_text_content, extracted_data,
                   calls, decode_failed, invoked>>

\* main, lines 132-147: parse_args (a usage error ends the process),
\* extracted_data = "" and the call of one extractor, or of none when the
\* path given is the empty string
Main ==
    /\ pc = "main"
    /\ IF UsageError
       THEN /\ invoked' = invoked \cup {"main"}
            /\ pc' = "exited"
            /\ UNCHANGED extracted_data
       ELSE /\ extracted_data' = Str(<<>>)
            /\ IF PathGiven(args_pptx)
               THEN /\ invoked' = invoked \cup {"main", "extract_content_from_pptx"}
                    /\ pc' = "pptx_open"
               ELSE IF PathGiven(args_image_folder)
               THEN /\ invoked' =
                           invoked \cup {"main", "extract_content_from_image_folder"}
                    /\ pc' = "folder_start"
               ELSE /\ invoked' = invoked \cup {"main"}
                    /\ pc' = "main_check"
    /\ UNCHANGED <<inputs, i, j, image_files, full_text_content, calls,
                   decode_failed, console, uncaught>>

\* ------------------------------------------------------ document mode
\* slide_number = i: the 0-based index of enumerate used as the number
SlideNumberZeroBased(idx) == idx

\* slide_number = i + 1
SlideNumber(idx) == idx + 1

\* the first pass over slide.shapes: shape.text + "\n" of every shape that
\* has a text attribute, in shape order
TextPass(slide_number, shapes) ==
    LET texts == [k \in 1..Len(shapes) |-> Seg("shape_text", slide_number, k, NoFile)]
    IN SelectSeq(texts, LAMBDA seg : shapes[seg.shape].has_text)

\* the acceptance test without the finish reason
IsAcceptedIgnoringSafety(r) == r.candidates > 0

\* `response.candidates and not response.candidates[0].finish_reason.name == "SAFETY"`
IsAccepted(r) == r.candidates > 0 /\ ~(r.finish_reason = "SAFETY")

\* how a call ended, for the call log
Outcome(r) ==
    IF r.raised THEN "raised"
    ELSE IF r.candidates = 0 THEN "no_candidates"
    ELSE r.finish_reason

\* the last call of the log gets its outcome
Returned(log, r) == [log EXCEPT ![Len(log)].outcome = Outcome(r)]

\* the picture pass also emitting the picture shape's own text
PptxOcrAppendWithShapeText(r, slide_number, pos, shape) ==
    IF r.candidates > 0 /\ ~(r.finish_reason = "SAFETY")
    THEN <<Seg("image_text", slide_number, pos, NoFile)>>
         \o (IF shape.has_text
             THEN <<Seg("shape_text", slide_number, pos, NoFile)>>
             ELSE <<>>)
    ELSE <<>>

\* lines 66-67: what a returned OCR response adds to the blob
PptxOcrAppend(r, slide_number, pos, shape) ==
    IF IsAccepted(r)
    THEN <<Seg("image_text", slide_number, pos, NoFile)>>
    ELSE <<>>

\* lines 36-43: Presentation(pptx_path); None when it raises, unless the
\* message of line 39 cannot be printed: the MarkupError of console.print
\* leaves the except branch, the extractor and main
PptxOpen ==
    /\ pc = "pptx_open"
    /\ IF ~can_open
       THEN IF ErrorMarkupRaises(error_text, args_pptx)
            THEN /\ uncaught' = "markup"
                 /\ pc' = "crashed"
                 /\ UNCHANGED <<full_text_content, i, console, extracted_data>>
            ELSE /\ console' = console \o <<"error: opening presentation file">>
                 /\ extracted_data' = None
                 /\ pc' = "main_check"
                 /\ UNCHANGED <<full_text_content, i, uncaught>>
       ELSE /\ full_text_content' = <<>>
            /\ console' = console \o <<"processing slides">>
            /\ i' = 0
            /\ pc' = "pptx_slide"
            /\ UNCHANGED <<extracted_data, uncaught>>
    /\ UNCHANGED <<inputs, j, image_files, calls, decode_failed, invoked>>

\* lines 46-53: the header of slide i + 1, then the text pass
PptxSlide ==
    /\ pc = "pptx_slide"
    /\ i < Len(slides)
    /\ full_text_content' =
           full_text_content
           \o <<Seg("header", SlideNumber(i), 0, NoFile)>>
           \o TextPass(SlideNumber(i), slides[i + 1])
    /\ j' = 1
    /\ pc' = "pptx_img"
    /\ UNCHANGED <<inputs, i, image_files, extracted_data, calls, decode_failed,
                   console, invoked, uncaught>>

\* lines 56-62: the next shape of the second pass; a picture is decoded
\* (Image.open may raise, and nothing catches it) and sent to the model
PptxShape ==
    /\ pc = "pptx_img"
    /\ j <= Len(slides[i + 1])
    /\ IF slides[i + 1][j].shape_type # PICTURE
       THEN /\ j' = j + 1
            /\ UNCHANGED <<pc, calls, decode_failed, uncaught>>
       ELSE \E decoded \in BOOLEAN :
            IF decoded
            THEN /\ calls' = Append(calls, Call("ocr", SlideNumber(i), j, NoFile))
                 /\ pc' = "pptx_ocr"
                 /\ UNCHANGED <<j, decode_failed, uncaught>>
            ELSE /\ decode_failed' =
                        Append(decode_failed, Image(SlideNumber(i), j, NoFile))
                 /\ uncaught' = "image"
                 /\ pc' = "crashed"
                 /\ UNCHANGED <<j, calls>>
    /\ UNCHANGED <<inputs, i, image_files, full_text_content, extracted_data,
                   console, invoked>>

\* lines 62-67: the OCR call returns or raises
PptxOcrReturn ==
    /\ pc = "pptx_ocr"
    /\ \E r \in Responses :
        /\ calls' = Returned(calls, r)
        /\ IF r.raised
           THEN /\ uncaught' = "image"
                /\ pc' = "crashed"
                /\ UNCHANGED <<j, full_text_content>>
           ELSE /\ full_text_content' =
                       full_text_content
                       \o PptxOcrAppend(r, SlideNumber(i), j, slides[i + 1][j])
                /\ j' = j + 1
                /\ pc' = "pptx_img"
                /\ UNCHANGED uncaught
    /\ UNCHANGED <<inputs, i, image_files, extracted_data, decode_failed,
                   console, invoked>>

\* the second pass is over: the next slide
PptxSlideEnd ==
    /\ pc = "pptx_img"
    /\ j > Len(slides[i + 1])
    /\ i' = i + 1
    /\ pc' = "pptx_slide"
    /\ UNCHANGED <<inputs, j, image_files, full_text_content, extracted_data,
                   calls, decode_failed, console, invoked, uncaught>>

\* line 68: return full_text_content
PptxReturn ==
    /\ pc = "pptx_slide"
    /\ i >= Len(slides)
    /\ extracted_data' = Str(full_text_content)
    /\ pc' = "main_check"
    /\ UNCHANGED <<inputs, i, j, image_files, full_text_content, calls,
                   decode_failed, console, invoked, uncaught>>

\* -------------------------------------------------------- folder mode
\* `if not image_files`
NoImages(files) == files = <<>>

\* an except branch that swallows the exception (except: pass)
FolderErrorSilent(slide_number, filename) == <<>>

\* line 101: the inline marker of the except branch
FolderErrorMarker(slide_number, filename) ==
    <<Seg("error", slide_number, 0, filename)>>

\* lines 98-99: what a returned OCR response adds to the blob
FolderOcrAppend(r, slide_number, filename) ==
    IF IsAccepted(r)
    THEN <<Seg("ocr_text", slide_number, 0, filename)>>
    ELSE <<>>

\* a loop that tries the same file again after a failure
NextFileRetry(idx, failed) == IF failed THEN idx ELSE idx + 1

\* line 88: the for loop goes on to the next file, whether the body ended
\* normally or in the except branch
NextFile(idx, failed) == idx + 1

\* lines 72-85: the directory check, the filtered and sorted listing (an
\* exception of os.listdir is not caught), and the early return of "" when
\* no image is left; the messages of lines 73 and 81 hold the path, and the
\* MarkupError of console.print for a path with a closing tag is not caught
FolderStart ==
    /\ pc = "folder_start"
    /\ IF ~isdir
       THEN IF ClosesTag(args_image_folder)
            THEN /\ uncaught' = "markup"
                 /\ pc' = "crashed"
                 /\ UNCHANGED <<image_files, full_text_content, i, console,
                                extracted_data>>
            ELSE /\ console' = console \o <<"error: folder not found">>
                 /\ extracted_data' = None
                 /\ pc' = "main_check"
                 /\ UNCHANGED <<image_files, full_text_content, i, uncaught>>
       ELSE IF ~can_list
       THEN /\ uncaught' = "listdir"
            /\ pc' = "crashed"
            /\ UNCHANGED <<image_files, full_text_content, i, console,
                           extracted_data>>
       ELSE LET files == SortImages(FilterImages(listing))
            IN /\ image_files' = files
               /\ IF NoImages(files)
                  THEN IF ClosesTag(args_image_folder)
                       THEN /\ uncaught' = "markup"
                            /\ pc' = "crashed"
                            /\ UNCHANGED <<full_text_content, i, console,
                                           extracted_data>>
                       ELSE /\ console' =
                                   console \o <<"warning: no image files found">>
                            /\ extracted_data' = Str(<<>>)
                            /\ pc' = "main_check"
                            /\ UNCHANGED <<full_text_content, i, uncaught>>
                  ELSE /\ full_text_content' = <<>>
                       /\ console' = console \o <<"processing images">>
                       /\ i' = 0
                       /\ pc' = "folder_loop"
                       /\ UNCHANGED <<extracted_data, uncaught>>
    /\ UNCHANGED <<inputs, j, calls, decode_failed, invoked>>

\* lines 88-94: the header of file i, then Image.open inside the try; a
\* decoding failure goes to the except branch, a decoded image to the model
FolderImage ==
    /\ pc = "folder_loop"
    /\ i < Len(image_files)
    /\ LET filename == image_files[i + 1]
           header == <<Seg("header", SlideNumber(i), 0, filename)>>
       IN \E decoded \in BOOLEAN :
           IF decoded
           THEN /\ full_text_content' = full_text_content \o header
                /\ calls' = Append(calls, Call("ocr", SlideNumber(i), 0, filename))
                /\ pc' = "folder_ocr"
                /\ UNCHANGED <<i, decode_failed>>
           ELSE /\ full_text_content' =
                       full_text_content \o header
                       \o FolderErrorMarker(SlideNumber(i), filename)
                /\ decode_failed' =
                       Append(decode_failed, Image(SlideNumber(i), 0, filename))
                /\ i' = NextFile(i, TRUE)
                /\ UNCHANGED <<pc, calls>>
    /\ UNCHANGED <<inputs, j, image_files, extracted_data, console, invoked,
                   uncaught>>

\* lines 94-101: the OCR call returns, or raises into the except branch
FolderOcrReturn ==
    /\ pc = "folder_ocr"
    /\ \E r \in Responses :
        /\ calls' = Returned(calls, r)
        /\ full_text_content' =
               full_text_content
               \o (IF r.raised
                   THEN FolderErrorMarker(SlideNumber(i), image_files[i + 1])
                   ELSE FolderOcrAppend(r, SlideNumber(i), image_files[i + 1]))
        /\ i' = NextFile(i, r.raised)
    /\ pc' = "folder_loop"
    /\ UNCHANGED <<inputs, j, image_files, extracted_data, decode_failed,
                   console, invoked, uncaught>>

\* line 103: return full_text_content
FolderReturn ==
    /\ pc = "folder_loop"
    /\ i >= Len(image_files)
    /\ extracted_data' = Str(full_text_content)
    /\ pc' = "main_check"
    /\ UNCHANGED <<inputs, i, j, image_files, full_text_content, calls,
                   decode_failed, console, invoked, uncaught>>

\* ------------------------------------------------- analysis and report
\* `if extracted_data is not None`
TruthyNotNone(x) == ~x.isNone

\* `if extracted_data`: None and "" are false
Truthy(x) == ~x.isNone /\ x.text # <<>>

\* lines 150-151 and 107-127: the analysis call is issued when data was
\* extracted; otherwise main ends
MainCheck ==
    /\ pc = "main_check"
    /\ IF Truthy(extracted_data)
       THEN /\ invoked' = invoked \cup {"analyze_content_with_gemini"}
            /\ console' = console \o <<"analyzing content">>
            /\ calls' = Append(calls, Call("analyze", 0, 0, NoFile))
            /\ pc' = "analyze_wait"
       ELSE /\ pc' = "done"
            /\ UNCHANGED <<invoked, console, calls>>
    /\ UNCHANGED <<inputs, i, j, image_files, full_text_content, extracted_data,
                   decode_failed, uncaught>>

\* lines 127-128 and 154-159: the analysis call returns and the report is
\* printed; an exception of the call or of response.text leaves main
AnalyzeReturn ==
    /\ pc = "analyze_wait"
    /\ \E ok \in BOOLEAN :
        IF ok
        THEN /\ calls' = [calls EXCEPT ![Len(calls)].outcome = "STOP"]
             /\ console' = console \o <<"report">>
             /\ pc' = "done"
             /\ UNCHANGED uncaught
        ELSE /\ calls' = [calls EXCEPT ![Len(calls)].outcome = "raised"]
             /\ uncaught' = "analysis"
             /\ pc' = "crashed"
             /\ UNCHANGED console
    /\ UNCHANGED <<inputs, i, j, image_files, full_text_content, extracted_data,
                   decode_failed, invoked>>

Next ==
    \/ Setup
    \/ Main
    \/ PptxOpen
    \/ PptxSlide
    \/ PptxShape
    \/ PptxOcrReturn
    \/ PptxSlideEnd
    \/ PptxReturn
    \/ FolderStart
    \/ FolderImage
    \/ FolderOcrReturn
    \/ FolderReturn
    \/ MainCheck
    \/ AnalyzeReturn

Spec == Init /\ [][Next]_vars

\* ------------------------------------------------------- properties
Blob == full_text_content

OfKind(blob, kind) == SelectSeq(blob, LAMBDA seg : seg.kind = kind)

Where(blob, P(_)) == {p \in 1..Len(blob) : P(blob[p])}

OcrCalls == SelectSeq(calls, LAMBDA c : c.kind = "ocr")

\* extract_content_from_pptx has returned a blob
PptxReturned ==
    /\ mode = "pptx"
    /\ can_open
    /\ pc \in {"main_check", "analyze_wait", "done"} \/ uncaught = "analysis"

\* extract_content_from_image_folder has returned the blob of its loop
FolderReturned ==
    /\ mode = "folder"
    /\ isdir
    /\ image_files # <<>>
    /\ pc \in {"main_check", "analyze_wait", "done"} \/ uncaught = "analysis"

\* the digit values of the decimal digits of a filename, in order
RECURSIVE DigitsOf(_)
DigitsOf(f) ==
    IF f = <<>> THEN <<>>
    ELSE (IF Head(f) \in DigitChars THEN <<DigitValues[Head(f)]>> ELSE <<>>)
         \o DigitsOf(Tail(f))

\* a string of digit values lengthened to n digits with leading zeros
Padded(d, n) == [k \in 1..(n - Len(d)) |-> 0] \o d

\* position by position, from the most significant digit
RECURSIVE DigitsLE(_, _)
DigitsLE(a, b) ==
    \/ a = <<>>
    \/ Head(a) < Head(b)
    \/ Head(a) = Head(b) /\ DigitsLE(Tail(a), Tail(b))

\* the integer the digits of f spell (0 without digits) is at most the
\* integer the digits of g spell
DigitKeyLE(f, g) ==
    LET a == DigitsOf(f)
        b == DigitsOf(g)
        n == IF Len(a) > Len(b) THEN Len(a) ELSE Len(b)
    IN DigitsLE(Padded(a, n), Padded(b, n))

HeaderFiles == [k \in 1..Len(OfKind(Blob, "header")) |-> OfKind(Blob, "header")[k].file]

\* C1: in folder mode the files are processed, and their headers appear in
\* the blob, in ascending order of the integer spelled by the digit
\* characters of the whole filename (0 when it has none); every qualifying
\* file of the listing is among them, once.
C1_FolderOrderByDigitKey ==
    (/\ mode = "folder"
     /\ isdir
     /\ can_list
     /\ pc \notin {"setup", "exited", "main", "folder_start"})
    =>
    /\ \A a, b \in 1..Len(image_files) :
           a < b => DigitKeyLE(image_files[a], image_files[b])
    /\ Range(image_files) = {f \in Range(listing) : IsImageFile(f)}
    /\ Cardinality(Range(image_files)) = Len(image_files)
    /\ Len(HeaderFiles) <= Len(image_files)
    /\ HeaderFiles = SubSeq(image_files, 1, Len(HeaderFiles))
    /\ FolderReturned => HeaderFiles = image_files

C1_Witness ==
    /\ pc = "done"
    /\ listing = <<F_img, F_fw>>
    /\ HeaderFiles = <<F_fw, F_img>>

\* C2: the blob extract_content_from_pptx returns for a document of N slides
\* holds exactly N headers, numbered 1..N in this order, and every other
\* segment of slide i comes after the header of slide i.
C2_SlideHeaders ==
    PptxReturned =>
    LET blob == extracted_data.text
        headers == OfKind(blob, "header")
    IN /\ [k \in 1..Len(headers) |-> headers[k].slide] = [k \in 1..Len(slides) |-> k]
       /\ \A p \in 1..Len(blob) :
              blob[p].kind # "header" =>
              /\ \E q \in 1..(p - 1) :
                     blob[q].kind = "header" /\ blob[q].slide = blob[p].slide
              /\ \A q \in 1..Len(blob) :
                     (blob[q].kind = "header" /\ blob[q].slide = blob[p].slide)
                     => q < p

C2_Witness ==
    /\ PptxReturned
    /\ pc = "done"
    /\ Len(slides) = 2
    /\ \E p \in 1..Len(Blob) : Blob[p].kind = "image_text" /\ Blob[p].slide = 2
    /\ \E p \in 1..Len(Blob) : Blob[p].kind = "shape_text" /\ Blob[p].slide = 1

\* C3: in document mode every literal shape text of a slide stands in the
\* blob before every AI-derived image text of the same slide, whatever the
\* order of the shapes.
C3_TextBeforeImageText ==
    \A p, q \in 1..Len(Blob) :
        (/\ Blob[p].kind = "image_text"
         /\ Blob[q].kind = "shape_text"
         /\ Blob[p].slide = Blob[q].slide)
        => q < p

\* a picture that also has text comes first on its slide, a text shape later
C3_Witness ==
    \E p, q \in 1..Len(Blob) :
        /\ Blob[p].kind = "image_text"
        /\ Blob[q].kind = "shape_text"
        /\ Blob[p].slide = Blob[q].slide
        /\ Blob[p].shape < Blob[q].shape
        /\ slides[Blob[p].slide][Blob[p].shape].has_text

Rejected == {"no_candidates", "SAFETY"}

\* C4: an OCR call that returns a rejected response (no candidate, or finish
\* reason SAFETY) leaves the blob exactly as it was, prints nothing, raises
\* nothing, and the loop goes on to the next shape or file; in both modes.
C4_RejectedAddsNothing ==
    [][ (/\ pc \in {"pptx_ocr", "folder_ocr"}
         /\ calls'[Len(calls')].outcome \in Rejected)
        =>
        /\ full_text_content' = full_text_content
        /\ console' = console
        /\ uncaught' = "none"
        /\ pc = "pptx_ocr" => (pc' = "pptx_img" /\ j' = j + 1 /\ i' = i)
        /\ pc = "folder_ocr" => (pc' = "folder_loop" /\ i' = i + 1) ]_vars

\* a rejected image of a slide, then an accepted image of the same slide
C4_Witness ==
    \E a, b \in 1..Len(calls) :
        /\ a < b
        /\ calls[a].kind = "ocr" /\ calls[a].outcome = "SAFETY"
        /\ calls[b].kind = "ocr" /\ calls[b].outcome = "STOP"
        /\ calls[a].slide = calls[b].slide
        /\ \A p \in 1..Len(Blob) :
               Blob[p].kind = "image_text" => Blob[p].shape # calls[a].shape

\* file k of the sorted list raised: in Image.open or in the OCR call
FileFailed(k) ==
    \/ \E d \in Range(decode_failed) : d.slide = k
    \/ \E c \in Range(calls) : c.kind = "ocr" /\ c.slide = k /\ c.outcome = "raised"

\* file k was handed to the try block once: it failed to decode, or one OCR
\* call was made for it
FileAttempts(k) ==
    Cardinality({n \in 1..Len(decode_failed) : decode_failed[n].slide = k})
    + Cardinality({n \in 1..Len(calls) : calls[n].kind = "ocr" /\ calls[n].slide = k})

\* C5: in folder mode an exception of one image never leaves the extractor;
\* the returned blob holds exactly one error marker naming each file that
\* raised (none for the others), and every later file still has its header
\* and was processed: its OCR call was made unless its own decoding raised.
C5_FolderErrorContained ==
    /\ mode = "folder" => uncaught # "image"
    /\ FolderReturned =>
       LET blob == extracted_data.text
       IN \A k \in 1..Len(image_files) :
          LET markers == Where(blob, LAMBDA seg :
                               seg.kind = "error" /\ seg.file = image_files[k])
          IN /\ Cardinality(markers) = (IF FileFailed(k) THEN 1 ELSE 0)
             /\ FileFailed(k) =>
                \A m \in (k + 1)..Len(image_files) :
                    /\ Cardinality(Where(blob, LAMBDA seg :
                           /\ seg.kind = "header"
                           /\ seg.slide = m
                           /\ seg.file = image_files[m])) = 1
                    /\ FileAttempts(m) = 1
                    /\ (\A d \in Range(decode_failed) : d.slide # m)
                       => \E c \in Range(calls) :
                              c.kind = "ocr" /\ c.file = image_files[m]

\* the first file makes its OCR call raise, the next one is read
C5_Witness ==
    /\ FolderReturned
    /\ pc = "done"
    /\ Len(image_files) = 2
    /\ \E c \in Range(calls) : c.kind = "ocr" /\ c.slide = 1 /\ c.outcome = "raised"
    /\ \E c \in Range(calls) : c.kind = "ocr" /\ c.slide = 2 /\ c.outcome = "STOP"
    /\ Len(OfKind(Blob, "error")) = 1

\* C6: no exception of a single image (decoding or OCR) leaves the
\* extractor, in document mode as in folder mode.
C6_NoPerImageExceptionEscapes == uncaught # "image"

AnalysisSeen ==
    \/ "analyze_content_with_gemini" \in invoked
    \/ \E c \in Range(calls) : c.kind = "analyze"
    \/ "report" \in Range(console)
    \/ pc = "analyze_wait"

\* the inputs extraction gets nothing out of
NoData ==
    \/ mode = "pptx" /\ ~can_open
    \/ mode = "pptx" /\ slides = <<>>
    \/ mode = "folder" /\ ~isdir
    \/ mode = "folder" /\ ~can_list
    \/ mode = "none"
    \/ mode = "folder" /\ \A f \in Range(listing) : ~IsImageFile(f)

\* C7: the analysis is called, and a report printed, only when extraction
\* returned a non-empty blob; a document that does not open, a path that is
\* no directory and an empty blob end the run without either.
C7_AnalysisOnlyOnData ==
    /\ AnalysisSeen => (~extracted_data.isNone /\ extracted_data.text # <<>>)
    /\ NoData => ~AnalysisSeen
    /\ (pc = "done" /\ (extracted_data.isNone \/ extracted_data.text = <<>>))
       => ~AnalysisSeen

C7_Witness ==
    /\ pc = "done"
    /\ mode = "pptx"
    /\ extracted_data.isNone
    /\ ~AnalysisSeen

\* C8: in folder mode a folder whose set of qualifying images is empty or
\* cannot be had (the directory is empty, holds other files only, or cannot
\* be listed) gives the empty string and a warning, and never a crash: no
\* exception is raised and no OCR call is made.
C8_EmptyFolderNeverCrashes ==
    (/\ mode = "folder"
     /\ isdir
     /\ \A f \in Range(listing) : ~IsImageFile(f)
     /\ pc \notin {"setup", "exited", "main", "folder_start"})
    =>
    /\ extracted_data = Str(<<>>)
    /\ "warning: no image files found" \in Range(console)
    /\ calls = <<>>
    /\ decode_failed = <<>>
    /\ uncaught = "none"
    /\ pc \in {"main_check", "done"}

\* C9: without the API credential the process reports the error and ends at
\* start-up: no function of the module is entered and no model call is made.
C9_MissingKeyNoWork ==
    ~api_key =>
    /\ pc \in {"setup", "exited"}
    /\ invoked = {}
    /\ calls = <<>>
    /\ decode_failed = <<>>
    /\ full_text_content = <<>>
    /\ pc = "exited" => console = <<"error: GOOGLE_API_KEY not found">>

C9_Witness ==
    /\ ~api_key
    /\ pc = "exited"
    /\ mode = "folder"
    /\ Len(listing) = 2
    /\ console = <<"error: GOOGLE_API_KEY not found">>

\* the position of an OCR call in slide order / sorted file order
CallBefore(a, b) ==
    \/ a.slide < b.slide
    \/ a.slide = b.slide /\ a.shape < b.shape

\* calls are made one at a time, OCR calls in slide order or sorted file
\* order, and the analysis call last
CallsInOrder ==
    /\ \A k \in 1..(Len(calls) - 1) : calls[k].outcome # "pending"
    /\ \A a, b \in 1..Len(OcrCalls) : a < b => CallBefore(OcrCalls[a], OcrCalls[b])
    /\ mode = "folder" =>
           \A a \in 1..Len(OcrCalls) : OcrCalls[a].file = image_files[OcrCalls[a].slide]
    /\ \A k \in 1..Len(calls) : calls[k].kind = "analyze" => k = Len(calls)

\* the picture shapes of the document
Pictures ==
    UNION { {<<s, n>> : n \in {m \in 1..Len(slides[s]) :
                                   slides[s][m].shape_type = PICTURE}} :
            s \in 1..Len(slides) }

CallsFor(s, n) ==
    Cardinality({k \in 1..Len(OcrCalls) : OcrCalls[k].slide = s /\ OcrCalls[k].shape = n})

\* C10 as stated: calls one at a time and in order, the analysis call last
\* and once, and exactly one OCR call for every image of a completed
\* extraction.
C10_ExactlyOneCallPerImage ==
    /\ CallsInOrder
    /\ PptxReturned => \A pic \in Pictures : CallsFor(pic[1], pic[2]) = 1
    /\ FolderReturned => \A k \in 1..Len(image_files) : CallsFor(k, 0) = 1

\* C10, amended: calls one at a time and in order, the analysis call last
\* and once; no image gets a second OCR call, and after a completed
\* extraction every image was attempted exactly once: one OCR call for an
\* image that was decoded, none for an image whose decoding raised.
C10_SequentialCalls ==
    /\ CallsInOrder
    /\ \A d \in Range(decode_failed) : CallsFor(d.slide, d.shape) = 0
    /\ PptxReturned =>
           /\ decode_failed = <<>>
           /\ \A pic \in Pictures : CallsFor(pic[1], pic[2]) = 1
    /\ FolderReturned =>
           \A k \in 1..Len(image_files) :
               /\ FileAttempts(k) = 1
               /\ CallsFor(k, 0) = (IF \E d \in Range(decode_failed) : d.slide = k
                                    THEN 0 ELSE 1)

\* a completed folder run: one file did not decode, one OCR call, then the
\* analysis call
C10_Witness ==
    /\ pc = "done"
    /\ mode = "folder"
    /\ Len(decode_failed) = 1
    /\ Len(OcrCalls) = 1
    /\ Len(calls) = 2
    /\ calls[2].kind = "analyze"
    /\ calls[2].outcome = "STOP"

====
